---- MODULE Spec2Model ----
(***************************************************************************)
(* State-machine model of src/main.py: the workspace scan done at import   *)
(* time, the two event handlers (select_file, update_file_content) and the *)
(* three component render functions, over a small explicit filesystem.     *)
(*                                                                         *)
(* A path is a sequence of names, a name and a text are sequences of       *)
(* one-character strings ("CR" and "LF" stand for '\r' and '\n').  The     *)
(* empty path is the empty string "".                                      *)
(***************************************************************************)
EXTENDS Integers, Sequences, FiniteSets, TLC

\* How many of the texts of TextPool the payloads draw "content" from.
MaxTexts == 3

TextPool == << <<"a">>, <<"CR">>, <<>>, <<"LF">>, <<"a", "CR">> >>

Texts == {TextPool[i] : i \in 1..MaxTexts}

\* Python None where a str is expected (payload values are typed Any).
NoneText == <<"None">>

NonePath == <<NoneText>>

IsStrPath(p) == p # NonePath

IsStrText(t) == t # NoneText

(***************************************************************************)
(* Names and paths of the modelled filesystem.                             *)
(***************************************************************************)
WS == <<"w">>

README == <<"R", ".", "m", "d">>

SRC == <<"s">>

APP == <<"a", ".", "P", "Y">>

workspace_dir == <<WS>>

join(dir, item) == Append(dir, item)

basename(p) == IF Len(p) = 0 THEN <<>> ELSE p[Len(p)]

dirname(p) == IF Len(p) = 0 THEN <<>> ELSE SubSeq(p, 1, Len(p) - 1)

default_file_path == join(workspace_dir, README)

SrcDir == join(workspace_dir, SRC)

AppFile == join(SrcDir, APP)

EmptyPath == <<>>

FsPaths == {workspace_dir, default_file_path, SrcDir, AppFile}

\* Values the "path" key of a payload takes.
PayloadPaths == {default_file_path, SrcDir, AppFile, EmptyPath, NonePath}

\* Values the "content" key of a payload takes.
PayloadTexts == Texts \cup {NoneText}

\* A byte sequence that is not valid UTF-8.
BadBytes == <<"BAD">>

InitData == {<<"a">>, BadBytes}

VARIABLES
    fs,                  \* the filesystem: path -> [kind, data]
    workspace_state,     \* the workspace tree
    current_file_state,  \* the selection
    file_content_state,  \* the content buffer
    last,                \* the most recent call: [op, ev, fault, result, io]
    pc,                  \* where the running handler is: [at, ev, fault]
    unlistable           \* the directories whose listing raises

vars == <<fs, workspace_state, current_file_state, file_content_state, last,
          pc, unlistable>>

\* os.linesep (POSIX).
linesep == <<"LF">>

(***************************************************************************)
(* Filesystem primitives used by the code.                                 *)
(***************************************************************************)
Kind(p) == IF p \in DOMAIN fs THEN fs[p].kind ELSE "absent"

\* os.path.isdir on a str: never raises, False for a missing path.
isdir(p) == Kind(p) = "dir"

Entry(k, d) == [kind |-> k, data |-> d]

\* Text-mode write: every '\n' becomes os.linesep.
RECURSIVE EncodeText(_)
EncodeText(t) ==
    IF Len(t) = 0 THEN <<>>
    ELSE (IF Head(t) = "LF" THEN linesep ELSE <<Head(t)>>) \o EncodeText(Tail(t))

\* Text-mode read (universal newlines): "\r\n" and a lone '\r' become '\n'.
RECURSIVE DecodeText(_)
DecodeText(b) ==
    IF Len(b) = 0 THEN <<>>
    ELSE IF Head(b) = "CR"
         THEN IF Len(b) >= 2 /\ b[2] = "LF"
              THEN <<"LF">> \o DecodeText(Tail(Tail(b)))
              ELSE <<"LF">> \o DecodeText(Tail(b))
         ELSE <<Head(b)>> \o DecodeText(Tail(b))

ErrorText(exc) == <<"Error reading file: ", exc>>

ReadErrors == {ErrorText(e) : e \in {"FileNotFoundError", "IsADirectoryError",
                                      "UnicodeDecodeError", "OSError"}}

\* read_file_content: fault is an injected I/O failure of open/read.
read_file_content(file_path, fault) ==
    IF Kind(file_path) = "absent" THEN ErrorText("FileNotFoundError")
    ELSE IF Kind(file_path) = "dir" THEN ErrorText("IsADirectoryError")
    ELSE IF fault THEN ErrorText("OSError")
    ELSE IF \E i \in 1..Len(fs[file_path].data) : fs[file_path].data[i] = "BAD"
         THEN ErrorText("UnicodeDecodeError")
    ELSE DecodeText(fs[file_path].data)

(***************************************************************************)
(* get_file_type / get_file_icon                                           *)
(***************************************************************************)
UpperCase ==
    <<"A", "B", "C", "D", "E", "F", "G", "H", "I", "J", "K", "L", "M",
      "N", "O", "P", "Q", "R", "S", "T", "U", "V", "W", "X", "Y", "Z">>

LowerCase ==
    <<"a", "b", "c", "d", "e", "f", "g", "h", "i", "j", "k", "l", "m",
      "n", "o", "p", "q", "r", "s", "t", "u", "v", "w", "x", "y", "z">>

lower(c) == IF \E i \in 1..Len(UpperCase) : UpperCase[i] = c
            THEN LowerCase[CHOOSE i \in 1..Len(UpperCase) : UpperCase[i] = c]
            ELSE c

LowerAll(s) == [i \in 1..Len(s) |-> lower(s[i])]

\* os.path.splitext(...)[1]: from the last dot, unless only dots precede it.
splitext(name) ==
    LET dots == {i \in 1..Len(name) : name[i] = "."}
    IN IF dots = {} THEN <<>>
       ELSE LET d == CHOOSE i \in dots : \A j \in dots : j <= i
            IN IF \E j \in 1..(d - 1) : name[j] # "."
               THEN SubSeq(name, d, Len(name))
               ELSE <<>>

type_map(ext) ==
    CASE ext = <<".", "p", "y">> -> "python"
      [] ext = <<".", "j", "s">> -> "javascript"
      [] ext = <<".", "h", "t", "m", "l">> -> "html"
      [] ext = <<".", "c", "s", "s">> -> "css"
      [] ext = <<".", "j", "s", "o", "n">> -> "json"
      [] ext = <<".", "m", "d">> -> "markdown"
      [] ext = <<".", "t", "x", "t">> -> "text"
      [] ext = <<".", "j", "p", "g">> -> "image"
      [] ext = <<".", "j", "p", "e", "g">> -> "image"
      [] ext = <<".", "p", "n", "g">> -> "image"
      [] ext = <<".", "g", "i", "f">> -> "image"
      [] ext = <<".", "s", "v", "g">> -> "image"
      [] OTHER -> "unknown"

\* A name without an extension is taken for a directory.
get_file_type_noext(file_path) ==
    IF isdir(file_path) \/ splitext(basename(file_path)) = <<>> THEN "directory"
    ELSE type_map(LowerAll(splitext(basename(file_path))))

\* The extension is looked up as it is written.
get_file_type_nolower(file_path) ==
    IF isdir(file_path) THEN "directory"
    ELSE type_map(splitext(basename(file_path)))

get_file_type(file_path) ==
    IF isdir(file_path) THEN "directory"
    ELSE type_map(LowerAll(splitext(basename(file_path))))

FILE_ICONS(t) ==
    CASE t = "directory" -> "icon-folder"
      [] t = "python" -> "icon-snake"
      [] t = "javascript" -> "icon-scroll"
      [] t = "html" -> "icon-globe"
      [] t = "css" -> "icon-palette"
      [] t = "json" -> "icon-clipboard"
      [] t = "markdown" -> "icon-memo"
      [] t = "text" -> "icon-page"
      [] t = "image" -> "icon-picture"
      [] OTHER -> "icon-paperclip"

get_file_icon(file_path) == FILE_ICONS(get_file_type(file_path))

(***************************************************************************)
(* scan_workspace                                                          *)
(***************************************************************************)
CharOrder == <<".", "A", "M", "P", "R", "Y", "a", "d", "m", "p", "r", "s", "w", "y">>

Ord(c) == CHOOSE i \in 1..Len(CharOrder) : CharOrder[i] = c

\* Python's str ordering: code point by code point, a prefix first.
RECURSIVE StrLess(_, _)
StrLess(a, b) ==
    IF Len(b) = 0 THEN FALSE
    ELSE IF Len(a) = 0 THEN TRUE
    ELSE IF Head(a) = Head(b) THEN StrLess(Tail(a), Tail(b))
    ELSE Ord(Head(a)) < Ord(Head(b))

RECURSIVE sorted(_)
sorted(S) ==
    IF S = {} THEN <<>>
    ELSE LET m == CHOOSE x \in S : \A y \in S \ {x} : StrLess(x, y)
         IN <<m>> \o sorted(S \ {m})

\* os.listdir: the names present in a directory.
listdir(dir) ==
    {basename(p) : p \in {q \in DOMAIN fs : /\ Len(q) = Len(dir) + 1
                                             /\ dirname(q) = dir
                                             /\ Kind(q) # "absent"}}

\* One sort over all the items: directories are not put first.
RECURSIVE scan_workspace_plainsort(_, _)
scan_workspace_plainsort(dir, nolist) ==
    LET workspace == [name |-> basename(dir), path |-> dir,
                      type |-> "directory", children |-> <<>>]
    IN IF dir \in nolist \/ ~isdir(dir) THEN workspace
       ELSE LET sorted_items == sorted(listdir(dir))
            IN [workspace EXCEPT !.children =
                  [k \in 1..Len(sorted_items) |->
                     LET item == sorted_items[k]
                         item_path == join(dir, item)
                     IN IF isdir(item_path)
                        THEN scan_workspace_plainsort(item_path, nolist)
                        ELSE [name |-> item, path |-> item_path,
                              type |-> get_file_type(item_path)]]]

\* No try/except of its own in the recursive call: a subdirectory whose
\* listing raises ends the loop of its parent.
RECURSIVE scan_workspace_propagates(_, _)
scan_workspace_propagates(dir, nolist) ==
    LET workspace == [name |-> basename(dir), path |-> dir,
                      type |-> "directory", children |-> <<>>]
    IN IF dir \in nolist \/ ~isdir(dir) THEN workspace
       ELSE LET items == listdir(dir)
                dirs == sorted({i \in items : isdir(join(dir, i))})
                files == sorted({i \in items : ~isdir(join(dir, i))})
                sorted_items == dirs \o files
                failing == {k \in 1..Len(sorted_items) :
                               join(dir, sorted_items[k]) \in nolist}
                done == IF failing = {} THEN Len(sorted_items)
                        ELSE (CHOOSE k \in failing : \A j \in failing : k <= j) - 1
            IN [workspace EXCEPT !.children =
                  [k \in 1..done |->
                     LET item == sorted_items[k]
                         item_path == join(dir, item)
                     IN IF isdir(item_path)
                        THEN scan_workspace_propagates(item_path, nolist)
                        ELSE [name |-> item, path |-> item_path,
                              type |-> get_file_type(item_path)]]]

\* nolist: the directories whose listing raises.
RECURSIVE scan_workspace(_, _)
scan_workspace(dir, nolist) ==
    LET workspace == [name |-> basename(dir), path |-> dir,
                      type |-> "directory", children |-> <<>>]
    IN IF dir \in nolist \/ ~isdir(dir) THEN workspace
       ELSE LET items == listdir(dir)
                dirs == sorted({i \in items : isdir(join(dir, i))})
                files == sorted({i \in items : ~isdir(join(dir, i))})
                sorted_items == dirs \o files
            IN [workspace EXCEPT !.children =
                  [k \in 1..Len(sorted_items) |->
                     LET item == sorted_items[k]
                         item_path == join(dir, item)
                     IN IF isdir(item_path)
                        THEN scan_workspace(item_path, nolist)
                        ELSE [name |-> item, path |-> item_path,
                              type |-> get_file_type(item_path)]]]

(***************************************************************************)
(* Event payloads: None, or a dict with some of the keys "path" and        *)
(* "content" (a key that is absent carries the None placeholder).          *)
(***************************************************************************)
Keys == {"path", "content"}

Payload(K, p, c) == [null |-> FALSE, keys |-> K, path |-> p, content |-> c]

NoPayload == [null |-> TRUE, keys |-> {}, path |-> NonePath, content |-> NoneText]

Payloads ==
    {NoPayload} \cup
    {ev \in {Payload(K, p, c) : K \in SUBSET Keys, p \in PayloadPaths,
                                c \in PayloadTexts} :
        /\ "path" \in ev.keys \/ ev.path = NonePath
        /\ "content" \in ev.keys \/ ev.content = NoneText}

\* select_file is sent {path}: payloads without a "content" key.
SelectPayloads == {ev \in Payloads : "content" \notin ev.keys}

\* "not event_data": None or an empty dict.
falsy(event_data) == event_data.null \/ event_data.keys = {}

Error(msg) == [error |-> msg]

Raise(exc) == [raise |-> exc]

\* What a handler call leaves behind: the observed values, the filesystem,
\* the returned (or raised) result and the I/O it performed.
Outcome(sel, buf, f, ws, res, io) ==
    [sel |-> sel, buf |-> buf, fs |-> f, ws |-> ws, result |-> res, io |-> io]

NoChange(res, io) ==
    Outcome(current_file_state, file_content_state, fs, workspace_state, res, io)

(***************************************************************************)
(* handle_select_file                                                      *)
(* fault: "read" injects an I/O failure into the read, "none" does not.    *)
(***************************************************************************)
handle_select_file_nodircheck(event_data, fault) ==
    IF falsy(event_data) \/ "path" \notin event_data.keys
    THEN NoChange(Error(<<"No path in event data">>), {})
    ELSE LET file_path == event_data.path
         IN IF ~IsStrPath(file_path)
            THEN NoChange(Raise("TypeError"), {})
            ELSE Outcome(file_path, read_file_content(file_path, fault = "read"),
                         fs, workspace_state,
                         [file |-> file_path, type |-> get_file_type(file_path)],
                         {"stat", "read"})

\* A failed read is reported as an error result and nothing is assigned.
handle_select_file_readerror(event_data, fault) ==
    IF falsy(event_data) \/ "path" \notin event_data.keys
    THEN NoChange(Error(<<"No path in event data">>), {})
    ELSE LET file_path == event_data.path
         IN IF ~IsStrPath(file_path)
            THEN NoChange(Raise("TypeError"), {})
            ELSE IF isdir(file_path)
            THEN NoChange(Error(<<"Cannot open directory">>), {"stat"})
            ELSE IF read_file_content(file_path, fault = "read") \in ReadErrors
            THEN NoChange(Error(read_file_content(file_path, fault = "read")),
                          {"stat", "read"})
            ELSE Outcome(file_path, read_file_content(file_path, fault = "read"),
                         fs, workspace_state,
                         [file |-> file_path, type |-> get_file_type(file_path)],
                         {"stat", "read"})

handle_select_file(event_data, fault) ==
    IF falsy(event_data) \/ "path" \notin event_data.keys
    THEN NoChange(Error(<<"No path in event data">>), {})
    ELSE LET file_path == event_data.path
         IN IF ~IsStrPath(file_path)
            THEN NoChange(Raise("TypeError"), {})
            ELSE IF isdir(file_path)
            THEN NoChange(Error(<<"Cannot open directory">>), {"stat"})
            ELSE Outcome(file_path, read_file_content(file_path, fault = "read"),
                         fs, workspace_state,
                         [file |-> file_path, type |-> get_file_type(file_path)],
                         {"stat", "read"})

(***************************************************************************)
(* handle_update_file_content                                              *)
(* fault: injected failure of open ("open") or of write/close ("write");   *)
(* keep: how many bytes reached the disk when the write failed.            *)
(***************************************************************************)
\* open(file_path, 'w') needs a non-empty path under an existing directory.
can_open_w(file_path) ==
    /\ Len(file_path) > 0
    /\ file_path \in FsPaths
    /\ Len(file_path) = 1 \/ isdir(dirname(file_path))

Written(f, exc, io) == [fs |-> f, exc |-> exc, io |-> io]

\* Append mode instead of 'w': the old bytes stay in front of the new ones.
write_file_append(file_path, new_content, fault, keep) ==
    IF ~can_open_w(file_path) THEN Written(fs, "FileNotFoundError", {"open_w"})
    ELSE IF fault = "open" THEN Written(fs, "PermissionError", {"open_w"})
    ELSE IF ~IsStrText(new_content)
    THEN Written([fs EXCEPT ![file_path] = Entry("file", fs[file_path].data)],
                 "TypeError", {"open_w"})
    ELSE IF fault = "write"
    THEN Written([fs EXCEPT ![file_path] =
                    Entry("file", fs[file_path].data
                                  \o SubSeq(EncodeText(new_content), 1, keep))],
                 "OSError", {"open_w", "write"})
    ELSE Written([fs EXCEPT ![file_path] =
                    Entry("file", fs[file_path].data \o EncodeText(new_content))],
                 "", {"open_w", "write"})

\* with open(file_path, 'w', encoding='utf-8') as f: f.write(new_content)
\* exc is the exception raised, "" if none; the open creates or truncates.
write_file(file_path, new_content, fault, keep) ==
    IF ~can_open_w(file_path) THEN Written(fs, "FileNotFoundError", {"open_w"})
    ELSE IF fault = "open" THEN Written(fs, "PermissionError", {"open_w"})
    ELSE IF ~IsStrText(new_content)
    THEN Written([fs EXCEPT ![file_path] = Entry("file", <<>>)],
                 "TypeError", {"open_w"})
    ELSE IF fault = "write"
    THEN Written([fs EXCEPT ![file_path] =
                    Entry("file", SubSeq(EncodeText(new_content), 1, keep))],
                 "OSError", {"open_w", "write"})
    ELSE Written([fs EXCEPT ![file_path] = Entry("file", EncodeText(new_content))],
                 "", {"open_w", "write"})

UpdateError(exc) == Error(<<"Error updating file: ", exc>>)

UpdateOk(file_path) == [success |-> TRUE, file |-> file_path]

\* The buffer is assigned before the write is known to have succeeded.
update_try_bufferfirst(file_path, new_content, fault, keep) ==
    LET w == write_file(file_path, new_content, fault, keep)
    IN IF w.exc = ""
       THEN Outcome(current_file_state, new_content, w.fs, workspace_state,
                    UpdateOk(file_path), {"stat"} \cup w.io)
       ELSE Outcome(current_file_state, new_content, w.fs, workspace_state,
                    UpdateError(w.exc), {"stat"} \cup w.io)

\* The written path also becomes the selection.
update_try_selects(file_path, new_content, fault, keep) ==
    LET w == write_file(file_path, new_content, fault, keep)
    IN IF w.exc = ""
       THEN Outcome(file_path, new_content, w.fs, workspace_state,
                    UpdateOk(file_path), {"stat"} \cup w.io)
       ELSE Outcome(current_file_state, file_content_state, w.fs, workspace_state,
                    UpdateError(w.exc), {"stat"} \cup w.io)

\* A file the write created is added to the root of the workspace tree.
update_try_addsnode(file_path, new_content, fault, keep) ==
    LET w == write_file(file_path, new_content, fault, keep)
    IN IF w.exc = ""
       THEN Outcome(current_file_state, new_content, w.fs,
                    IF Kind(file_path) = "absent"
                    THEN [workspace_state EXCEPT !.children =
                            Append(@, [name |-> basename(file_path),
                                       path |-> file_path,
                                       type |-> get_file_type(file_path)])]
                    ELSE workspace_state,
                    UpdateOk(file_path), {"stat"} \cup w.io)
       ELSE Outcome(current_file_state, file_content_state, w.fs, workspace_state,
                    UpdateError(w.exc), {"stat"} \cup w.io)

\* The try/except block: write, then set the buffer, else report the error.
update_try(file_path, new_content, fault, keep) ==
    LET w == write_file(file_path, new_content, fault, keep)
    IN IF w.exc = ""
       THEN Outcome(current_file_state, new_content, w.fs, workspace_state,
                    UpdateOk(file_path), {"stat"} \cup w.io)
       ELSE Outcome(current_file_state, file_content_state, w.fs, workspace_state,
                    UpdateError(w.exc), {"stat"} \cup w.io)

\* Only the path is checked; a missing content is read as None.
handle_update_file_content_nocontentcheck(event_data, fault, keep) ==
    IF falsy(event_data) \/ "path" \notin event_data.keys
    THEN NoChange(Error(<<"Missing path or content">>), {})
    ELSE LET file_path == event_data.path
             new_content == event_data.content
         IN IF ~IsStrPath(file_path)
            THEN NoChange(Raise("TypeError"), {})
            ELSE IF isdir(file_path)
            THEN NoChange(Error(<<"Cannot update directory">>), {"stat"})
            ELSE update_try(file_path, new_content, fault, keep)

\* No directory check: the open itself fails on a directory.
handle_update_file_content_nodircheck(event_data, fault, keep) ==
    IF falsy(event_data) \/ "path" \notin event_data.keys
                         \/ "content" \notin event_data.keys
    THEN NoChange(Error(<<"Missing path or content">>), {})
    ELSE LET file_path == event_data.path
             new_content == event_data.content
         IN IF ~IsStrPath(file_path)
            THEN NoChange(Raise("TypeError"), {})
            ELSE IF isdir(file_path)
            THEN NoChange(UpdateError("IsADirectoryError"), {"open_w"})
            ELSE update_try(file_path, new_content, fault, keep)

handle_update_file_content(event_data, fault, keep) ==
    IF falsy(event_data) \/ "path" \notin event_data.keys
                         \/ "content" \notin event_data.keys
    THEN NoChange(Error(<<"Missing path or content">>), {})
    ELSE LET file_path == event_data.path
             new_content == event_data.content
         IN IF ~IsStrPath(file_path)
            THEN NoChange(Raise("TypeError"), {})
            ELSE IF isdir(file_path)
            THEN NoChange(Error(<<"Cannot update directory">>), {"stat"})
            ELSE update_try(file_path, new_content, fault, keep)

(***************************************************************************)
(* FileExplorer.render_file_tree / FileExplorer.render                     *)
(* A rendered node keeps the attributes that vary: ids, labels, icons,     *)
(* colours, weights, actions and data; constant styling is left out.       *)
(***************************************************************************)
DirItem(node, level) ==
    [type |-> "div",
     component_id |-> <<"dir-item-", node.path>>,
     paddingLeft |-> level * 16,
     icon |-> get_file_icon(node.path),
     label |-> node.name]

\* The button carries the selection in place of the node's path.
FileItem_selpath(node, level) ==
    LET is_current_file == node.path = current_file_state
    IN [type |-> "div",
        component_id |-> <<"file-item-", node.path>>,
        component_type |-> "file-item",
        paddingLeft |-> level * 16,
        backgroundColor |-> IF is_current_file THEN "#37373d" ELSE "transparent",
        icon |-> get_file_icon(node.path),
        iconColor |-> IF is_current_file THEN "#75beff" ELSE "#cccccc",
        button |-> [label |-> node.name,
                    action |-> "select_file",
                    data |-> [path |-> current_file_state],
                    color |-> IF is_current_file THEN "#ffffff" ELSE "#cccccc",
                    fontWeight |-> IF is_current_file THEN "bold" ELSE "normal"]]

FileItem(node, level) ==
    LET is_current_file == node.path = current_file_state
    IN [type |-> "div",
        component_id |-> <<"file-item-", node.path>>,
        component_type |-> "file-item",
        paddingLeft |-> level * 16,
        backgroundColor |-> IF is_current_file THEN "#37373d" ELSE "transparent",
        icon |-> get_file_icon(node.path),
        iconColor |-> IF is_current_file THEN "#75beff" ELSE "#cccccc",
        button |-> [label |-> node.name,
                    action |-> "select_file",
                    data |-> [path |-> node.path],
                    color |-> IF is_current_file THEN "#ffffff" ELSE "#cccccc",
                    fontWeight |-> IF is_current_file THEN "bold" ELSE "normal"]]

RECURSIVE render_file_tree(_, _)
render_file_tree(node, level) ==
    LET is_directory == node.type = "directory"
        item == IF is_directory THEN DirItem(node, level) ELSE FileItem(node, level)
    IN IF is_directory /\ "children" \in DOMAIN node
       THEN [type |-> "div",
             children |-> <<item,
                            [type |-> "div",
                             children |-> [k \in 1..Len(node.children) |->
                                 render_file_tree(node.children[k], level + 1)]]>>]
       ELSE item

FileExplorer_render ==
    [type |-> "div",
     children |-> <<[type |-> "h3", content |-> "EXPLORER"],
                    render_file_tree(workspace_state, 0)>>]

(***************************************************************************)
(* Editor.render                                                           *)
(***************************************************************************)
\* The text surface always addresses the file shown at startup.
Editor_render_defaultpath ==
    LET current_file == current_file_state
        file_content == file_content_state
    IN IF current_file = EmptyPath
       THEN [type |-> "div",
             children |-> <<[type |-> "h1", content |-> "VS Code Replica"],
                            [type |-> "p",
                             content |-> "Select a file from the explorer to start editing"]>>]
       ELSE [type |-> "div",
             children |->
               <<[type |-> "div",
                  icon |-> get_file_icon(current_file),
                  label |-> basename(current_file)],
                 [type |-> "textarea",
                  component_id |-> "code-editor-textarea",
                  content |-> file_content,
                  action |-> "update_file_content",
                  data |-> [path |-> default_file_path]]>>]

\* "not current_file": the empty string is falsy.
Editor_render ==
    LET current_file == current_file_state
        file_content == file_content_state
    IN IF current_file = EmptyPath
       THEN [type |-> "div",
             children |-> <<[type |-> "h1", content |-> "VS Code Replica"],
                            [type |-> "p",
                             content |-> "Select a file from the explorer to start editing"]>>]
       ELSE [type |-> "div",
             children |->
               <<[type |-> "div",
                  icon |-> get_file_icon(current_file),
                  label |-> basename(current_file)],
                 [type |-> "textarea",
                  component_id |-> "code-editor-textarea",
                  content |-> file_content,
                  action |-> "update_file_content",
                  data |-> [path |-> current_file]]>>]

(***************************************************************************)
(* StatusBar.render                                                        *)
(***************************************************************************)
upper(t) ==
    CASE t = "directory" -> "DIRECTORY"
      [] t = "python" -> "PYTHON"
      [] t = "javascript" -> "JAVASCRIPT"
      [] t = "html" -> "HTML"
      [] t = "css" -> "CSS"
      [] t = "json" -> "JSON"
      [] t = "markdown" -> "MARKDOWN"
      [] t = "text" -> "TEXT"
      [] t = "image" -> "IMAGE"
      [] t = "unknown" -> "UNKNOWN"
      [] OTHER -> "NONE"

StatusBar_render ==
    LET current_file == current_file_state
        file_type == IF current_file # EmptyPath THEN get_file_type(current_file)
                     ELSE "none"
    IN [type |-> "div",
        left |-> "VS Code Replica",
        right |-> IF current_file # EmptyPath THEN upper(file_type) ELSE ""]

(***************************************************************************)
(* The state machine.                                                      *)
(***************************************************************************)
IsSelectOk(res) == DOMAIN res = {"file", "type"}

IsUpdateOk(res) == DOMAIN res = {"success", "file"}

IsError(res) == DOMAIN res = {"error"}

IsRaise(res) == DOMAIN res = {"raise"}

Call(op, ev, fault, res, io) ==
    [op |-> op, ev |-> ev, fault |-> fault, result |-> res, io |-> io]

\* No handler is running.
Idle == [at |-> "idle", ev |-> NoPayload, fault |-> "none"]

InitFs ==
    {f \in [FsPaths -> {Entry(k, d) : k \in {"absent", "file", "dir"},
                                      d \in InitData \cup {<<>>}}] :
        /\ \A p \in FsPaths : (f[p].kind = "file") <=> (f[p].data # <<>>)
        /\ f[workspace_dir].kind = "dir"
        /\ f[SrcDir].kind = "dir"
        /\ f[AppFile].kind \in {"file", "absent"}}

Init ==
    /\ fs \in InitFs
    /\ workspace_state = scan_workspace(workspace_dir, {})
    /\ current_file_state = default_file_path
    /\ \E fault \in BOOLEAN :
          file_content_state = read_file_content(default_file_path, fault)
    /\ last = Call("startup", NoPayload, "none", [startup |-> TRUE], {})
    /\ pc = Idle
    /\ unlistable = {}

\* A handler call that runs from its first statement to its return.
Apply(op, ev, fault, o) ==
    /\ pc = Idle
    /\ UNCHANGED <<pc, unlistable>>
    /\ current_file_state' = o.sel
    /\ file_content_state' = o.buf
    /\ fs' = o.fs
    /\ workspace_state' = o.ws
    /\ last' = Call(op, ev, fault, o.result, o.io)

\* The read of a select_file call can fail only if there is a file to read.
ReadFaults(ev) ==
    IF "path" \in ev.keys /\ Kind(ev.path) = "file" THEN {"none", "read"}
    ELSE {"none"}

SelectFile ==
    \E ev \in SelectPayloads :
      \E fault \in ReadFaults(ev) :
        Apply("select_file", ev, fault, handle_select_file(ev, fault))

\* The write of an update_file_content call can fail only if it is attempted.
WriteFaults(ev) ==
    IF Keys \subseteq ev.keys /\ IsStrPath(ev.path) /\ ~isdir(ev.path)
       /\ can_open_w(ev.path)
    THEN IF IsStrText(ev.content)
         THEN {<<"none", 0>>, <<"open", 0>>} \cup
              {<<"write", k>> : k \in 0..Len(EncodeText(ev.content))}
         ELSE {<<"none", 0>>, <<"open", 0>>}
    ELSE {<<"none", 0>>}

UpdateFileContent ==
    \E ev \in Payloads :
      \E f \in WriteFaults(ev) :
        Apply("update_file_content", ev, f[1],
              handle_update_file_content(ev, f[1], f[2]))

\* A render returns a view and assigns nothing.
Render(op, view) ==
    /\ last' = Call(op, NoPayload, "none", view, {"stat"})
    /\ UNCHANGED <<fs, workspace_state, current_file_state, file_content_state,
                   pc, unlistable>>

RenderExplorer == Render("render_explorer", FileExplorer_render)

RenderEditor == Render("render_editor", Editor_render)

RenderStatusBar == Render("render_status_bar", StatusBar_render)

Next ==
    \/ SelectFile
    \/ UpdateFileContent
    \/ RenderExplorer
    \/ RenderEditor
    \/ RenderStatusBar

Spec == Init /\ [][Next]_vars

(***************************************************************************)
(* The program next to other processes that change the workspace on disk:  *)
(* os.path.isdir, open and os.listdir see whatever is there when called.   *)
(***************************************************************************)
\* Another process deletes a file or puts a directory in its place.
FsChange ==
    /\ pc = Idle
    /\ \E p \in {default_file_path, AppFile} :
         \E e \in {Entry("absent", <<>>), Entry("dir", <<>>)} :
            /\ fs[p].kind = "file"
            /\ fs' = [fs EXCEPT ![p] = e]
    /\ UNCHANGED <<workspace_state, current_file_state, file_content_state,
                   last, pc, unlistable>>

NextEnv == Next \/ FsChange

SpecEnv == Init /\ [][NextEnv]_vars

(***************************************************************************)
(* handle_select_file statement by statement: current_file_state.set(...)  *)
(* and file_content_state.set(...) are two assignments, and a render runs  *)
(* after each assignment to an observed State.                             *)
(***************************************************************************)
\* handle_select_file up to and including current_file_state.set(file_path);
\* a call that returns before it is a step of its own.
SelectBegin ==
    /\ pc = Idle
    /\ \E ev \in SelectPayloads :
         \E fault \in ReadFaults(ev) :
            LET o == handle_select_file(ev, fault)
            IN IF IsSelectOk(o.result)
               THEN /\ current_file_state' = ev.path
                    /\ pc' = [at |-> "set_content", ev |-> ev, fault |-> fault]
                    /\ UNCHANGED <<fs, workspace_state, file_content_state,
                                   last, unlistable>>
               ELSE Apply("select_file", ev, fault, o)

\* read_file_content(file_path), file_content_state.set(content), return.
SelectEnd ==
    /\ pc.at = "set_content"
    /\ LET o == handle_select_file(pc.ev, pc.fault)
       IN /\ file_content_state' = o.buf
          /\ last' = Call("select_file", pc.ev, pc.fault, o.result, o.io)
    /\ pc' = Idle
    /\ UNCHANGED <<fs, workspace_state, current_file_state, unlistable>>

\* The renders run after every assignment, also between the two of a
\* select_file call.
NextSteps ==
    \/ SelectBegin
    \/ SelectEnd
    \/ UpdateFileContent
    \/ RenderExplorer
    \/ RenderEditor
    \/ RenderStatusBar

SpecSteps == Init /\ [][NextSteps]_vars

(***************************************************************************)
(* The start of the program as steps of its own, over richer directory     *)
(* trees: workspace_state is State({}) until the scan result is set, and   *)
(* get_file_type is applied to one path at a time.                         *)
(***************************************************************************)
\* How many of the names of NamePool the workspace directory may hold.
MaxNames == 3

NamePool == <<SRC, README, <<"M">>, <<"a">>, <<"d">>>>

RootNames == {NamePool[i] : i \in 1..MaxNames}

\* The names the directory SRC may hold.
SubNames == {APP, <<"M">>}

ScanPaths ==
    {workspace_dir} \cup {join(workspace_dir, n) : n \in RootNames}
                    \cup {join(SrcDir, n) : n \in SubNames}

ScanFs ==
    {f \in [ScanPaths -> {Entry("absent", <<>>), Entry("file", <<"a">>),
                          Entry("dir", <<>>)}] :
        /\ f[workspace_dir].kind = "dir"
        /\ \A n \in SubNames :
              f[join(SrcDir, n)].kind # "absent" => f[SrcDir].kind = "dir"}

\* Python's {}: a dict without keys.
EmptyDict == <<>>

InitScan ==
    /\ fs \in ScanFs
    /\ unlistable \in SUBSET {p \in ScanPaths : fs[p].kind = "dir"}
    /\ workspace_state = EmptyDict
    /\ current_file_state = EmptyPath
    /\ file_content_state = <<>>
    /\ last = Call("import", NoPayload, "none", [startup |-> FALSE], {})
    /\ pc = Idle

\* workspace_state.set(scan_workspace(workspace_dir)) and the two State(...)
\* that follow it.
Startup ==
    /\ last.op = "import"
    /\ workspace_state' = scan_workspace(workspace_dir, unlistable)
    /\ current_file_state' = default_file_path
    /\ \E fault \in BOOLEAN :
          file_content_state' = read_file_content(default_file_path, fault)
    /\ last' = Call("startup", NoPayload, "none", [startup |-> TRUE], {"stat", "read"})
    /\ UNCHANGED <<fs, pc, unlistable>>

\* File names get_file_type is applied to, besides the names on disk.
ClassifyNames ==
    {<<"a", ".", "p", "y">>, <<"a", ".", "J", "S">>,
     <<"a", ".", "h", "t", "m", "l">>, <<"a", ".", "c", "s", "s">>,
     <<"a", ".", "j", "s", "o", "n">>, <<"R", ".", "M", "D">>,
     <<"a", ".", "t", "x", "t">>, <<"a", ".", "j", "p", "g">>,
     <<"a", ".", "J", "p", "e", "g">>, <<"a", ".", "p", "n", "g">>,
     <<"a", ".", "g", "i", "f">>, <<"a", ".", "S", "V", "G">>,
     <<"a", ".", "p">>, <<".", "p", "y">>, <<"a", ".", "m", "d", ".", "x">>}

ClassifyPaths ==
    ScanPaths \cup {join(workspace_dir, n) : n \in ClassifyNames}

\* A call get_file_type(file_path).
Classify ==
    /\ last.op # "import"
    /\ \E file_path \in ClassifyPaths :
          last' = Call("get_file_type", Payload({"path"}, file_path, NoneText),
                       "none", [type |-> get_file_type(file_path)], {"stat"})
    /\ UNCHANGED <<fs, workspace_state, current_file_state, file_content_state,
                   pc, unlistable>>

NextScan == Startup \/ Classify

ScanSpec == InitScan /\ [][NextScan]_vars

(***************************************************************************)
(* Properties.  last' describes the call a step makes, so a property of a  *)
(* call compares the values before the step with the primed values.        *)
(***************************************************************************)
IsHandler(op) == op \in {"select_file", "update_file_content"}

IsRender(op) == op \in {"render_explorer", "render_editor", "render_status_bar"}

SelBufUnchanged ==
    /\ current_file_state' = current_file_state
    /\ file_content_state' = file_content_state

WriteIO == {"open_w", "write"}

FileIO == {"read", "open_w", "write"}

\* The payload names a str path that is a directory when the call starts.
NamesDirectory(ev) == "path" \in ev.keys /\ IsStrPath(ev.path) /\ isdir(ev.path)

\* C1: a select_file call on a directory path returns an error result and
\* leaves the selection and the content buffer as they were.
C1_SelectDirectoryRejected ==
    [][(last'.op = "select_file" /\ NamesDirectory(last'.ev))
          => (IsError(last'.result) /\ SelBufUnchanged)]_vars

C1_Witness ==
    /\ last.op = "select_file"
    /\ last.ev.path = SrcDir
    /\ last.result = Error(<<"Cannot open directory">>)
    /\ current_file_state = default_file_path

\* The call reaches the write and the write fails: the open fails (no parent
\* directory, injected failure) or the write fails (content is not a str,
\* injected failure).
WriteFails(ev, fault) ==
    /\ Keys \subseteq ev.keys
    /\ IsStrPath(ev.path)
    /\ ~isdir(ev.path)
    /\ ~can_open_w(ev.path) \/ fault # "none" \/ ~IsStrText(ev.content)

\* C2: an update_file_content call whose write fails returns an error result
\* and leaves buffer and selection as they were; a call changes the buffer
\* only when its write has put the whole new text on disk.
C2_WriteFailureKeepsBuffer ==
    [][last'.op = "update_file_content" =>
          /\ WriteFails(last'.ev, last'.fault)
                => (IsError(last'.result) /\ SelBufUnchanged)
          /\ file_content_state' # file_content_state
                => /\ IsUpdateOk(last'.result)
                   /\ file_content_state' = last'.ev.content
                   /\ fs'[last'.ev.path].data = EncodeText(last'.ev.content)]_vars

C2_Witness ==
    /\ last.op = "update_file_content"
    /\ last.fault = "write"
    /\ IsError(last.result)
    /\ IsStrText(last.ev.content)
    /\ file_content_state # last.ev.content

\* C3: a successful update_file_content(p, t) directly followed by a
\* select_file(p) whose read meets no I/O failure leaves the buffer equal to t.
C3_WriteReadRoundTrip ==
    [][(/\ last.op = "update_file_content"
        /\ IsUpdateOk(last.result)
        /\ last'.op = "select_file"
        /\ IsSelectOk(last'.result)
        /\ last'.fault = "none"
        /\ last'.ev.path = last.ev.path)
          => file_content_state' = last.ev.content]_vars

\* C4: the buffer is the text last loaded from, or last successfully written
\* to, the selected path: a step either loads the buffer from the path it
\* selects, or writes the buffer's new text to the selected path, or leaves
\* selection and buffer alone.
C4_BufferIsTextOfSelection ==
    [][\/ /\ last'.op = "select_file"
          /\ IsSelectOk(last'.result)
          /\ current_file_state' = last'.ev.path
          /\ file_content_state' = read_file_content(last'.ev.path,
                                                     last'.fault = "read")
       \/ /\ last'.op = "update_file_content"
          /\ IsUpdateOk(last'.result)
          /\ last'.ev.path = current_file_state
          /\ current_file_state' = current_file_state
          /\ file_content_state' = last'.ev.content
       \/ SelBufUnchanged]_vars

\* The request lacks a required field (or is no payload at all).
Malformed(op, ev) ==
    \/ op = "select_file" /\ (ev.null \/ "path" \notin ev.keys)
    \/ op = "update_file_content"
          /\ (ev.null \/ "path" \notin ev.keys \/ "content" \notin ev.keys)

\* C5: a malformed request returns an error result, changes neither
\* selection nor buffer, and reads and writes no file.
C5_MalformedRejected ==
    [][Malformed(last'.op, last'.ev) =>
          /\ IsError(last'.result)
          /\ SelBufUnchanged
          /\ fs' = fs
          /\ last'.io \cap FileIO = {}]_vars

C5_Witness ==
    /\ last.op = "update_file_content"
    /\ last.ev.keys = {"path"}
    /\ last.ev.path = default_file_path
    /\ last.result = Error(<<"Missing path or content">>)

\* C6: every handler call returns a result of the documented shape and
\* raises nothing.
C6_AlwaysAResult ==
    /\ last.op = "select_file"
          => (IsSelectOk(last.result) \/ IsError(last.result))
    /\ last.op = "update_file_content"
          => (IsUpdateOk(last.result) \/ IsError(last.result))

\* C7: an update_file_content call on a directory path returns an error
\* result without opening, creating or truncating any file, and leaves
\* selection and buffer as they were.
C7_UpdateDirectoryRejected ==
    [][(last'.op = "update_file_content" /\ NamesDirectory(last'.ev)) =>
          /\ IsError(last'.result)
          /\ last'.io \cap WriteIO = {}
          /\ fs' = fs
          /\ SelBufUnchanged]_vars

C7_Witness ==
    /\ last.op = "update_file_content"
    /\ last.ev.path = SrcDir
    /\ IsStrText(last.ev.content)
    /\ last.result = Error(<<"Cannot update directory">>)

\* C8: after a successful update_file_content(path, newText) the file at
\* path holds exactly newText, the buffer is newText and the result is
\* {success: true, file: path}.
C8_SuccessfulUpdate ==
    [][(last'.op = "update_file_content" /\ IsUpdateOk(last'.result)) =>
          /\ fs'[last'.ev.path] = Entry("file", last'.ev.content)
          /\ file_content_state' = last'.ev.content
          /\ last'.result = [success |-> TRUE, file |-> last'.ev.path]]_vars

C8_Witness ==
    /\ last.op = "update_file_content"
    /\ IsUpdateOk(last.result)
    /\ last.ev.content # <<>>
    /\ fs[last.ev.path].data = last.ev.content
    /\ file_content_state = last.ev.content

\* C9: only a select_file call that passes its checks changes the selection,
\* only such a call or a successful update_file_content changes the buffer,
\* and a render changes none of tree, selection and buffer.
C9_OnlyHandlersMutate ==
    [][/\ current_file_state' # current_file_state
            => (last'.op = "select_file" /\ IsSelectOk(last'.result))
       /\ file_content_state' # file_content_state
            => \/ last'.op = "select_file" /\ IsSelectOk(last'.result)
               \/ last'.op = "update_file_content" /\ IsUpdateOk(last'.result)
       /\ IsRender(last'.op)
            => UNCHANGED <<workspace_state, current_file_state,
                           file_content_state>>]_vars

C9_Witness ==
    /\ last.op = "update_file_content"
    /\ IsUpdateOk(last.result)
    /\ last.ev.path = AppFile
    /\ current_file_state = default_file_path
    /\ file_content_state = last.ev.content

\* The paths of the file nodes of a tree.
RECURSIVE FileNodePaths(_)
FileNodePaths(node) ==
    IF "children" \in DOMAIN node
    THEN UNION {FileNodePaths(node.children[k]) : k \in 1..Len(node.children)}
    ELSE {node.path}

\* C10: no call changes the workspace tree built at startup.
C10_TreeNeverChanges == [][workspace_state' = workspace_state]_vars

C10_Witness ==
    /\ last.op = "update_file_content"
    /\ IsUpdateOk(last.result)
    /\ Kind(last.ev.path) = "file"
    /\ last.ev.path \notin FileNodePaths(workspace_state)

Scanned == last.op # "import"

\* The nodes of a tree: the node itself and the nodes below it.
RECURSIVE AllNodes(_)
AllNodes(node) ==
    IF "children" \in DOMAIN node
    THEN {node} \cup UNION {AllNodes(node.children[k]) : k \in 1..Len(node.children)}
    ELSE {node}

IsDirNode(node) == node.type = "directory"

\* Directories first, and ascending names inside each of the two groups.
ChildrenOrdered(node) ==
    \A i, j \in 1..Len(node.children) :
        i < j =>
          LET a == node.children[i]
              b == node.children[j]
          IN /\ IsDirNode(b) => IsDirNode(a)
             /\ IsDirNode(a) = IsDirNode(b) => StrLess(a.name, b.name)

\* C11: at every directory node of the scan result the directory children
\* come before the file children and each group is in ascending order of
\* name; a root holding file R.md and directory s with a.PY yields [s, R.md]
\* and s holds [a.PY].
C11_ScanOrdered ==
    Scanned =>
      /\ \A node \in AllNodes(workspace_state) :
            "children" \in DOMAIN node => ChildrenOrdered(node)
      /\ (/\ listdir(workspace_dir) = {README, SRC}
          /\ isdir(SrcDir) /\ ~isdir(default_file_path)
          /\ listdir(SrcDir) = {APP} /\ ~isdir(AppFile)
          /\ unlistable = {})
            => /\ Len(workspace_state.children) = 2
               /\ workspace_state.children[1].name = SRC
               /\ workspace_state.children[2].name = README
               /\ workspace_state.children[2].type = "markdown"
               /\ Len(workspace_state.children[1].children) = 1
               /\ workspace_state.children[1].children[1].name = APP
               /\ workspace_state.children[1].children[1].type = "python"

C11_Witness ==
    /\ Scanned
    /\ Len(workspace_state.children) = 3
    /\ workspace_state.children[1].name = SRC
    /\ workspace_state.children[2].name = <<"M">>
    /\ workspace_state.children[3].name = README
    /\ ~IsDirNode(workspace_state.children[2])
    /\ Len(workspace_state.children[1].children) = 2

\* A tree as it is when the listing of the directories in failed raised:
\* those nodes have no children, every other node is as it was.
RECURSIVE Prune(_, _)
Prune(node, failed) ==
    IF "children" \notin DOMAIN node THEN node
    ELSE IF node.path \in failed THEN [node EXCEPT !.children = <<>>]
    ELSE [node EXCEPT !.children =
            [k \in 1..Len(node.children) |-> Prune(node.children[k], failed)]]

\* C12: whichever directories cannot be listed, the scan returns the root
\* node, each failing directory is a directory node without children, and
\* the rest of the tree is what the scan yields when no listing fails.
C12_ListingFailureIsLocal ==
    Scanned =>
      /\ workspace_state.path = workspace_dir
      /\ workspace_state.type = "directory"
      /\ workspace_state = Prune(scan_workspace(workspace_dir, {}), unlistable)

C12_Witness ==
    /\ Scanned
    /\ unlistable = {SrcDir}
    /\ listdir(SrcDir) # {}
    /\ Len(workspace_state.children) = 3
    /\ workspace_state.children[1].path = SrcDir
    /\ workspace_state.children[1].children = <<>>
    /\ workspace_state.children[3].path = default_file_path

\* C13: a node of the scan result has children exactly if its kind is
\* directory.
C13_ChildrenIffDirectory ==
    Scanned =>
      \A node \in AllNodes(workspace_state) :
          ("children" \in DOMAIN node) <=> (node.type = "directory")

C13_Witness ==
    /\ Scanned
    /\ \E node \in AllNodes(workspace_state) :
          "children" \notin DOMAIN node /\ node.type = "unknown"
    /\ \E node \in AllNodes(workspace_state) :
          /\ "children" \in DOMAIN node
          /\ node.path # workspace_dir
          /\ node.children # <<>>

Kinds ==
    {"directory", "python", "javascript", "html", "css", "json", "markdown",
     "text", "image", "unknown"}

\* The kind of each extension, written in lower case.
ExtensionKinds ==
    {<< <<".", "p", "y">>, "python" >>, << <<".", "j", "s">>, "javascript" >>,
     << <<".", "h", "t", "m", "l">>, "html" >>, << <<".", "c", "s", "s">>, "css" >>,
     << <<".", "j", "s", "o", "n">>, "json" >>, << <<".", "m", "d">>, "markdown" >>,
     << <<".", "t", "x", "t">>, "text" >>, << <<".", "j", "p", "g">>, "image" >>,
     << <<".", "j", "p", "e", "g">>, "image" >>, << <<".", "p", "n", "g">>, "image" >>,
     << <<".", "g", "i", "f">>, "image" >>, << <<".", "s", "v", "g">>, "image" >>}

\* Two characters that are equal or the two cases of one letter.
SameLetter(c, d) ==
    \/ c = d
    \/ \E i \in 1..Len(UpperCase) :
          {c, d} = {UpperCase[i], LowerCase[i]}

\* Two strings that differ at most in letter case.
SameIgnoringCase(a, b) ==
    /\ Len(a) = Len(b)
    /\ \A i \in 1..Len(a) : SameLetter(a[i], b[i])

Extension(p) == splitext(basename(p))

\* C14: get_file_type returns one of the ten kinds; 'directory' exactly for
\* a directory; for any other path the kind listed for its extension taken
\* without regard to letter case, and 'unknown' if none is listed; paths
\* that are not directories and whose extensions differ only in letter case
\* get the same kind.
C14_Classification ==
    last.op = "get_file_type" =>
      LET p == last.ev.path
          kind == last.result.type
          listed == {e \in ExtensionKinds : SameIgnoringCase(e[1], Extension(p))}
      IN /\ kind \in Kinds
         /\ isdir(p) <=> kind = "directory"
         /\ ~isdir(p) =>
              /\ \A e \in listed : kind = e[2]
              /\ listed = {} => kind = "unknown"
              /\ \A q \in ClassifyPaths :
                    ~isdir(q) /\ SameIgnoringCase(Extension(q), Extension(p))
                      => get_file_type(q) = kind

C14_Witness ==
    /\ last.op = "get_file_type"
    /\ last.ev.path = AppFile
    /\ Kind(AppFile) = "file"
    /\ last.result.type = "python"

\* The read of path p fails: nothing to open, an I/O failure, or bytes that
\* are not UTF-8.
Unreadable(p, fault) ==
    \/ Kind(p) # "file"
    \/ fault = "read"
    \/ \E i \in 1..Len(fs[p].data) : fs[p].data[i] = "BAD"

\* C15: a select_file call with a path that is a string and not a directory
\* returns {file, type}, makes the path the selection and makes the buffer a
\* string: the error text if the read or the decoding fails, the decoded
\* text of the file otherwise.
C15_UnreadableStillSelected ==
    [][(/\ last'.op = "select_file"
        /\ "path" \in last'.ev.keys
        /\ IsStrPath(last'.ev.path)
        /\ ~isdir(last'.ev.path))
       => /\ IsSelectOk(last'.result)
          /\ last'.result.file = last'.ev.path
          /\ current_file_state' = last'.ev.path
          /\ IsStrText(file_content_state')
          /\ IF Unreadable(last'.ev.path, last'.fault)
             THEN file_content_state' \in ReadErrors
             ELSE file_content_state' = DecodeText(fs[last'.ev.path].data)]_vars

C15_Witness ==
    /\ last.op = "select_file"
    /\ last.ev.path = AppFile
    /\ last.fault = "read"
    /\ IsSelectOk(last.result)
    /\ current_file_state = AppFile
    /\ file_content_state = ErrorText("OSError")

\* The items of a rendered explorer: a file item has a component_type, a
\* directory item a label of its own.
RECURSIVE Items(_)
Items(view) ==
    IF "children" \in DOMAIN view
    THEN UNION {Items(view.children[k]) : k \in 1..Len(view.children)}
    ELSE IF "component_id" \in DOMAIN view THEN {view}
    ELSE {}

FileItems(view) == {i \in Items(view) : "component_type" \in DOMAIN i}

DirItems(view) == Items(view) \ FileItems(view)

SelectedLook(item) ==
    /\ item.backgroundColor = "#37373d"
    /\ item.button.fontWeight = "bold"
    /\ item.iconColor = "#75beff"

PlainLook(item) ==
    /\ item.backgroundColor = "transparent"
    /\ item.button.fontWeight = "normal"
    /\ item.iconColor = "#cccccc"

\* C16: in an explorer render there is one file item per file node of the
\* tree, its button carries action select_file and the node's path, it has
\* the selected look if that path is the selection and the plain look
\* otherwise, at most one item has the selected look, and a directory item
\* has no button and no action.
C16_ExplorerItems ==
    last.op = "render_explorer" =>
      LET files == FileItems(last.result)
          nodes == {n \in AllNodes(workspace_state) : ~IsDirNode(n)}
      IN /\ \A item \in files :
               /\ item.button.action = "select_file"
               /\ IF item.button.data.path = current_file_state
                  THEN SelectedLook(item) ELSE PlainLook(item)
         /\ {<<i.button.label, i.button.data.path>> : i \in files}
               = {<<n.name, n.path>> : n \in nodes}
         /\ Cardinality(files) = Cardinality(nodes)
         /\ Cardinality({i \in files : SelectedLook(i)}) <= 1
         /\ \A item \in DirItems(last.result) :
               DOMAIN item \cap {"button", "action", "data"} = {}

C16_Witness ==
    /\ last.op = "render_explorer"
    /\ current_file_state = AppFile
    /\ Cardinality(FileItems(last.result)) = 2
    /\ Cardinality({i \in FileItems(last.result) : SelectedLook(i)}) = 1
    /\ Cardinality(DirItems(last.result)) = 2

\* The parts of a rendered editor that can be edited.
TextSurfaces(view) ==
    {k \in 1..Len(view.children) : view.children[k].type = "textarea"}

IsPlaceholder(view) ==
    /\ TextSurfaces(view) = {}
    /\ \A k \in 1..Len(view.children) :
          DOMAIN view.children[k] = {"type", "content"}

\* C17: an editor render is the placeholder exactly if the selection is
\* empty; otherwise it has a header labelled with the basename of the
\* selection and one text surface whose content is the buffer and whose
\* update_file_content intent carries the selection as path.
C17_EditorShowsSelection ==
    last.op = "render_editor" =>
      LET view == last.result
      IN /\ IsPlaceholder(view) <=> current_file_state = EmptyPath
         /\ current_file_state # EmptyPath =>
              /\ Cardinality(TextSurfaces(view)) = 1
              /\ view.children[1].label = basename(current_file_state)
              /\ \A k \in TextSurfaces(view) :
                    /\ view.children[k].content = file_content_state
                    /\ view.children[k].action = "update_file_content"
                    /\ view.children[k].data.path = current_file_state

C17_Witness ==
    /\ last.op = "render_editor"
    /\ current_file_state = AppFile
    /\ file_content_state = <<"CR">>
    /\ ~IsPlaceholder(last.result)

\* C18: a render that follows the same render, with no handler call between
\* the two - so with the same tree, selection and buffer - returns the same
\* view, whatever happened on disk between them.
C18_RendersPure ==
    [][(IsRender(last'.op) /\ last'.op = last.op)
          => last'.result = last.result]_vars

\* C19: wherever a render can run while a select_file call has set the
\* selection, the buffer is already the text that call reads for the
\* selected path - no render sees the new selection with the text of the
\* file selected before.
C19_SelectionAndBufferTogether ==
    pc.at = "set_content" =>
      file_content_state = read_file_content(current_file_state, pc.fault = "read")

\* C20: an update_file_content call that returns an error result leaves the
\* filesystem - so the target file - as it was, and leaves selection and
\* buffer unchanged.
C20_ErrorLeavesFileIntact ==
    [][(last'.op = "update_file_content" /\ IsError(last'.result))
          => (fs' = fs /\ SelBufUnchanged)]_vars

\* A handler call whose payload names a path that is not the path of a file
\* node of the workspace tree.
OutsideTree(call) ==
    /\ IsHandler(call.op)
    /\ "path" \in call.ev.keys
    /\ call.ev.path \notin FileNodePaths(workspace_state)

\* C21: after every step the selection is the path of a file node of the
\* workspace tree or the startup default (as it is at startup), and a
\* select_file or update_file_content call whose path is not the path of a
\* file node of the tree changes neither the selection, nor the buffer, nor
\* the filesystem.
C21_OnlyWorkspaceFiles ==
    [][/\ current_file_state' \in
            FileNodePaths(workspace_state') \cup {default_file_path}
       /\ OutsideTree(last') => (fs' = fs /\ SelBufUnchanged)]_vars

====
